---- MODULE Spec2Model ----
(***************************************************************************)
(* Twin Timer: proper-time accumulator driven by inertial sensors.         *)
(*                                                                         *)
(* The repository holds three near-duplicate pipelines:                    *)
(*   "simple"   src/app.js 1-205        device-frame integration           *)
(*   "madgwick" src/app.js 207-672      quaternion fusion, adaptive drift  *)
(*   "euler"    src/unnamed/part_000    Euler-angle rotation matrix        *)
(* The variable variant selects which of them a behaviour runs.            *)
(*                                                                         *)
(* Numbers are fixed point with three decimals: the integer n stands for   *)
(* n/Scale.  Timestamps are whole milliseconds, so the dt of a step, which *)
(* the code computes in seconds as (t - lastFrameT)/1000, is the timestamp *)
(* difference itself.  Every quotient rounds to the nearest unit.          *)
(***************************************************************************)
EXTENDS Integers, Sequences, FiniteSets, TLC

\* ------------------------------------------------------------------ bounds
\* Frame timestamps are the multiples of TickMs up to MaxTick * TickMs.
MaxTick == 1
\* Events the host delivers in one behaviour: clicks, visibility changes,
\* edits of the settings, sensor readings and frames.
MaxEvents == 5
\* Frames of a steady run (the specification SpecRun) after its first one.
RunSteps == 60

\* ------------------------------------------------------------ fixed point
Scale == 10 * 10 * 10
TickMs == Scale \div 10

Abs(n) == IF n < 0 THEN -n ELSE n
Sign(n) == IF n < 0 THEN -1 ELSE 1
Max(a, b) == IF a >= b THEN a ELSE b
Min(a, b) == IF a <= b THEN a ELSE b

\* With(e, LAMBDA x : body) is body with x bound to the value of e: a local
\* constant of the code, computed once.
With(x, F(_)) == F(x)

\* n/d rounded to the nearest integer, halves away from zero (d > 0).
RoundDiv(n, d) == Sign(n) * ((Abs(n) + d \div 2) \div d)

\* Product and quotient of two fixed-point numbers.
Mul(a, b) == RoundDiv(a * b, Scale)
Div(a, b) == IF b < 0 THEN RoundDiv(-(a * Scale), -b) ELSE RoundDiv(a * Scale, b)

\* Floor of the square root of a natural number (Newton iteration).
RECURSIVE NewtonSqrt(_, _)
NewtonSqrt(n, r) ==
    LET r2 == (r + n \div r) \div 2
    IN IF r2 >= r THEN r ELSE NewtonSqrt(n, r2)

ISqrt(n) == IF n <= 0 THEN 0 ELSE NewtonSqrt(n, n)

\* Square root rounded to the nearest integer.
RSqrt(n) ==
    LET r == ISqrt(n)
    IN IF n - r * r > r THEN r + 1 ELSE r

\* Math.sqrt on a fixed-point number.
Sqrt(x) == RSqrt(x * Scale)

\* Math.hypot of three and of four fixed-point numbers.
Hypot3(x, y, z) == RSqrt(x * x + y * y + z * z)
Hypot4(w, x, y, z) == RSqrt(w * w + x * x + y * y + z * z)

\* e^-1 and the Taylor series of e^-x on 0 <= x < 1.
ExpNeg1 == RoundDiv(367879, Scale)

RECURSIVE ExpSeries(_, _, _)
ExpSeries(x, term, k) ==
    IF term = 0 THEN 0
    ELSE term + ExpSeries(x, -RoundDiv(term * x, k * Scale), k + 1)

\* Math.exp(-x) for x >= 0: e^-x = (e^-1)^floor(x) * e^-(x - floor(x)).
RECURSIVE ExpNeg(_)
ExpNeg(x) ==
    IF x >= Scale
    THEN LET rest == ExpNeg(x - Scale)
         IN IF rest = 0 THEN 0 ELSE Mul(ExpNeg1, rest)
    ELSE ExpSeries(x, Scale, 1)

\* From this argument on the double nearest to tanh(x) is 1.0 itself
\* (x >= 19.0615...); below it Math.tanh(x) is below 1.
TanhSaturation == RoundDiv(19061548, Scale)

\* Math.tanh(x) for x >= 0: (1 - e^-2x) / (1 + e^-2x).  The rounding of the
\* fixed point never makes it 1 where the double is below 1.
Tanh(x) ==
    IF x >= TanhSaturation THEN Scale
    ELSE Min(Div(Scale - ExpNeg(2 * x), Scale + ExpNeg(2 * x)), Scale - 1)

\* ------------------------------------------------------- values and nulls
\* A value that may be null is a sequence: << >> is null, <<x>> holds x.
Null == << >>
Some(x) == <<x>>
IsNull(o) == o = << >>
\* JavaScript's o ?? d.
OrElse(o, d) == IF o = << >> THEN d ELSE o[1]

Vec(x, y, z) == [x |-> x, y |-> y, z |-> z]
Zero3 == Vec(0, 0, 0)

\* ---------------------------------------------------- constants of the code
G == 9807
GATE == 50
HP_ALPHA == 980
beta == 100
\* Math.PI, and degrees to radians as the handlers do it: d * Math.PI / 180.
PI == RoundDiv(3141593, Scale)
DegToRad(d) == RoundDiv(d * PI, 180 * Scale)

norm3(x, y, z) == Hypot3(x, y, z)
addScaled(v, a, dt) ==
    Vec(v.x + Mul(a.x, dt), v.y + Mul(a.y, dt), v.z + Mul(a.z, dt))

\* ------------------------------------------------------------- settings
\* The text of a settings field and what parseFloat makes of it: a number,
\* or NaN (Null here); "Infinity" parses to a non-finite number.
FieldTexts == {"", "abc", "Infinity", "-2", "0", "0.001", "0.1", "0.5", "1", "3"}
parseFloat(text) ==
    CASE text = "-2" -> [finite |-> TRUE, nan |-> FALSE, val |-> -2 * Scale]
      [] text = "0" -> [finite |-> TRUE, nan |-> FALSE, val |-> 0]
      [] text = "0.001" -> [finite |-> TRUE, nan |-> FALSE, val |-> Scale \div Scale]
      [] text = "0.1" -> [finite |-> TRUE, nan |-> FALSE, val |-> Scale \div 10]
      [] text = "0.5" -> [finite |-> TRUE, nan |-> FALSE, val |-> Scale \div 2]
      [] text = "1" -> [finite |-> TRUE, nan |-> FALSE, val |-> Scale]
      [] text = "3" -> [finite |-> TRUE, nan |-> FALSE, val |-> 3 * Scale]
      [] text = "Infinity" -> [finite |-> FALSE, nan |-> FALSE, val |-> 0]
      [] OTHER -> [finite |-> FALSE, nan |-> TRUE, val |-> 0]

getC(text) ==
    LET c == parseFloat(text)
    IN IF c.finite /\ c.val > 0 THEN c.val ELSE Scale
getTau(text) ==
    LET t == parseFloat(text)
    IN IF t.finite /\ t.val > 0 THEN t.val ELSE 3 * Scale
\* A boost that takes 0 for invalid, as the other two fields do.
getKPositive(text) ==
    LET k == parseFloat(text)
    IN IF k.finite /\ k.val > 0 THEN k.val ELSE Scale \div 2

getK(text) ==
    LET k == parseFloat(text)
    IN IF k.finite /\ k.val >= 0 THEN k.val ELSE Scale \div 2

\* ------------------------------------------------------ relativistic mapper
\* c * Math.tanh(vmag / c): c itself where the tanh is 1, below c elsewhere
\* (the rounding of the fixed point never lifts it to c).
limitSpeed(vmag, c) ==
    IF Tanh(Div(vmag, c)) = Scale THEN c
    ELSE Min(Mul(c, Tanh(Div(vmag, c))), c - 1)

\* A Lorentz factor is m * 10^e / Scale: e is 0 except for the guard value
\* 1e12, which no fixed-point integer of this model can hold.
GammaGuard == [m |-> Scale, e |-> 12]
gammaFromV(vmag, c) ==
    LET beta2 == Div(vmag * vmag, c * c)
    IN IF beta2 <= 0 THEN [m |-> Scale, e |-> 0]
       ELSE IF beta2 >= Scale THEN GammaGuard
       ELSE [m |-> Div(Scale, Sqrt(Scale - beta2)), e |-> 0]

RECURSIVE ShiftDown(_, _)
ShiftDown(n, e) == IF e = 0 \/ n = 0 THEN n ELSE ShiftDown(RoundDiv(n, 10), e - 1)

\* A proper time that runs at the rate of the wall clock.
DivGammaNone(dt, gamma) == dt

\* dt / gamma.
DivGamma(dt, gamma) == ShiftDown(Div(dt, gamma.m), gamma.e)

\* ------------------------------------------------- the range of a double
\* limitSpeed, gammaFromV and dt / gamma over the whole range of a Number,
\* which the fixed point above cannot hold: a value is not-a-number, an
\* infinity, zero, or m * 10^e with a mantissa of four digits
\* (Scale <= m < 10 * Scale).  Only values >= 0 occur.  A product or quotient
\* beyond Number.MAX_VALUE is Infinity, one below the smallest subnormal is
\* 0, and 0/0, Infinity/Infinity and 0 * Infinity are NaN.
FNaN == [k |-> "nan", m |-> 0, e |-> 0]
FInf == [k |-> "inf", m |-> 0, e |-> 0]
FZero == [k |-> "num", m |-> 0, e |-> 0]
FOne == [k |-> "num", m |-> Scale, e |-> -3]

\* Number.MAX_VALUE is 1.797e308: MaxMant * 10^MaxExp.
MaxExp == 305
MaxMant == 1797
\* Half of Number.MIN_VALUE is 2.47e-324, MinMant * 10^-MinExp: what is not
\* above it rounds to 0.
MinExp == 327
MinMant == 2470

RECURSIVE Pow10(_)
Pow10(n) == IF n <= 0 THEN 1 ELSE 10 * Pow10(n - 1)

\* The double nearest to m * 10^e (the mantissa is cut to four digits).
RECURSIVE FRound(_, _)
FRound(m, e) ==
    IF m = 0 THEN FZero
    ELSE IF m >= 10 * Scale THEN FRound(m \div 10, e + 1)
    ELSE IF m < Scale THEN FRound(m * 10, e - 1)
    ELSE IF e > MaxExp \/ (e = MaxExp /\ m > MaxMant) THEN FInf
    ELSE IF e < -MinExp \/ (e = -MinExp /\ m <= MinMant) THEN FZero
    ELSE [k |-> "num", m |-> m, e |-> e]

\* a * b
FMul(a, b) ==
    IF a.k = "nan" \/ b.k = "nan" THEN FNaN
    ELSE IF a.k = "inf" \/ b.k = "inf"
    THEN (IF a = FZero \/ b = FZero THEN FNaN ELSE FInf)
    ELSE FRound(a.m * b.m, a.e + b.e)

\* a / b
FDiv(a, b) ==
    IF a.k = "nan" \/ b.k = "nan" THEN FNaN
    ELSE IF a.k = "inf" THEN (IF b.k = "inf" THEN FNaN ELSE FInf)
    ELSE IF b.k = "inf" THEN FZero
    ELSE IF b = FZero THEN (IF a = FZero THEN FNaN ELSE FInf)
    ELSE FRound((a.m * 10 * Scale) \div b.m, a.e - b.e - 4)

\* a < b and a >= b: every comparison with NaN is false.
FLess(a, b) ==
    /\ a.k = "num"
    /\ b.k # "nan"
    /\ \/ b.k = "inf"
       \/ b.m > 0 /\ (a.m = 0 \/ a.e < b.e \/ (a.e = b.e /\ a.m < b.m))
FGe(a, b) == a.k # "nan" /\ b.k # "nan" /\ ~FLess(a, b)

\* A double of the fixed-point range as a fixed-point number, and back.
ToFixed(a) ==
    IF a.e + 3 >= 0 THEN a.m * Pow10(a.e + 3) ELSE a.m \div Pow10(-(a.e + 3))
FromFixed(n) == FRound(n, -3)

\* 1 - b for 0 < b < 1 (or NaN), exact to eight decimals.
FOneMinus(b) ==
    IF b.k = "nan" THEN FNaN
    ELSE FRound(Pow10(8) - (IF b.e + 8 >= 0 THEN b.m * Pow10(b.e + 8)
                            ELSE b.m \div Pow10(-(b.e + 8))), -8)

\* Math.sqrt(a) for a > 0 (or NaN).
FSqrt(a) ==
    IF a.k = "nan" THEN FNaN
    ELSE IF a.e % 2 = 0 THEN FRound(ISqrt(a.m * Pow10(4)), (a.e - 4) \div 2)
    ELSE FRound(ISqrt(a.m * Pow10(5)), (a.e - 5) \div 2)

\* Math.tanh(x) for x >= 0: 1 from TanhSaturation on, x itself below a
\* thousandth (where tanh x = x to four digits).
FTanh(x) ==
    IF x.k = "nan" THEN FNaN
    ELSE IF FGe(x, FromFixed(TanhSaturation)) THEN FOne
    ELSE IF FLess(x, FromFixed(1)) THEN x
    ELSE FromFixed(Tanh(ToFixed(x)))

\* return c * Math.tanh(vmag / c);
limitSpeedDouble(vmag, c) == FMul(c, FTanh(FDiv(vmag, c)))

\* gammaFromV, branch by branch.
GammaGuardDouble == [k |-> "num", m |-> Scale, e |-> 9]
gammaFromVDouble(vmag, c) ==
    With(FDiv(FMul(vmag, vmag), FMul(c, c)), LAMBDA beta2 :
        IF FGe(FZero, beta2) THEN FOne
        ELSE IF FGe(beta2, FOne) THEN GammaGuardDouble
        ELSE FDiv(FOne, FSqrt(FOneMinus(beta2))))

\* parseFloat on the texts of the speed-of-light field, and getC on it.
DoubleTexts == {"abc", "1e-200", "1e-160", "0.001", "1", "1e200"}
parseDouble(text) ==
    CASE text = "1e-200" -> FRound(1, -200)
      [] text = "1e-160" -> FRound(1, -160)
      [] text = "0.001" -> FRound(1, -3)
      [] text = "1" -> FOne
      [] text = "1e200" -> FRound(1, 200)
      [] OTHER -> FNaN
getCDouble(text) ==
    With(parseDouble(text), LAMBDA c :
        IF c.k = "num" /\ c.m > 0 THEN c ELSE FOne)

\* --------------------------------------------------- quaternion helpers
\* A quaternion is <<w, x, y, z>>.
QIdentity == <<Scale, 0, 0, 0>>

\* A normalisation that leaves the quaternion as it is.
qKeep(q) == q

\* Math.hypot(...) || 1: a zero norm is replaced by 1.
qNormalize(q) ==
    LET h == Hypot4(q[1], q[2], q[3], q[4])
        n == IF h = 0 THEN Scale ELSE h
    IN <<Div(q[1], n), Div(q[2], n), Div(q[3], n), Div(q[4], n)>>

qConj(q) == <<q[1], -q[2], -q[3], -q[4]>>

qMul(a, b) ==
    << Mul(a[1], b[1]) - Mul(a[2], b[2]) - Mul(a[3], b[3]) - Mul(a[4], b[4]),
       Mul(a[1], b[2]) + Mul(a[2], b[1]) + Mul(a[3], b[4]) - Mul(a[4], b[3]),
       Mul(a[1], b[3]) - Mul(a[2], b[4]) + Mul(a[3], b[1]) + Mul(a[4], b[2]),
       Mul(a[1], b[4]) + Mul(a[2], b[3]) - Mul(a[3], b[2]) + Mul(a[4], b[1]) >>

\* v_world = q (x) v (x) q*
qRotateVec(q, v) ==
    LET vq == <<0, v.x, v.y, v.z>>
        t == qMul(q, vq)
        r == qMul(t, qConj(q))
    IN Vec(r[2], r[3], r[4])

\* ------------------------------------------------------ Madgwick filter
\* The time step of Madgwick.update is counted in units of 1/DtUnit second,
\* the finest step a caller passes (the gyroscope handler's floor, 0.0001 s).
DtUnit == 10 * Scale
MulDt(rate, dt) == RoundDiv(rate * dt, DtUnit)

Sq(x) == Mul(x, x)

\* Reference direction of Earth's magnetic field: <<_2bx, _2bz>>.
magReference(q, m) ==
    LET q1 == q[1]  q2 == q[2]  q3 == q[3]  q4 == q[4]
        mx == m.x  my == m.y  mz == m.z
        t2q1mx == 2 * Mul(q1, mx)
        t2q1my == 2 * Mul(q1, my)
        t2q1mz == 2 * Mul(q1, mz)
        t2q2mx == 2 * Mul(q2, mx)
        t2q2 == 2 * q2  t2q3 == 2 * q3
        q1q1 == Mul(q1, q1)  q2q2 == Mul(q2, q2)
        q3q3 == Mul(q3, q3)  q4q4 == Mul(q4, q4)
        hx == Mul(mx, q1q1) - Mul(t2q1my, q4) + Mul(t2q1mz, q3) + Mul(mx, q2q2)
              + Mul(Mul(t2q2, my), q3) + Mul(Mul(t2q2, mz), q4)
              - Mul(mx, q3q3) - Mul(mx, q4q4)
        hy == Mul(t2q1mx, q4) + Mul(my, q1q1) - Mul(t2q1mz, q2) + Mul(t2q2mx, q3)
              - Mul(my, q2q2) + Mul(my, q3q3) + Mul(Mul(t2q3, mz), q4)
              - Mul(my, q4q4)
    IN << Sqrt(Sq(hx) + Sq(hy)),
          -Mul(t2q1mx, q3) + Mul(t2q1my, q2) + Mul(mz, q1q1)
          + Mul(t2q2mx, q4) - Mul(mz, q2q2) + Mul(Mul(t2q3, my), q4)
          - Mul(mz, q3q3) + Mul(mz, q4q4) >>

\* The error terms the corrective step repeats: three of gravity (a is the
\* unit accelerometer vector), three of the magnetic field (b from above).
errorTerms(q, a, m, b) ==
    LET q1 == q[1]  q2 == q[2]  q3 == q[3]  q4 == q[4]
        q2q2 == Mul(q2, q2)  q3q3 == Mul(q3, q3)  q4q4 == Mul(q4, q4)
        half == Scale \div 2
    IN << 2 * (Mul(q2, q4) - Mul(q1, q3)) - a.x,
          2 * (Mul(q1, q2) + Mul(q3, q4)) - a.y,
          Scale - 2 * (q2q2 + q3q3) - a.z,
          Mul(b[1], half - q3q3 - q4q4) + Mul(b[2], Mul(q2, q4) - Mul(q1, q3)) - m.x,
          Mul(b[1], Mul(q2, q3) - Mul(q1, q4)) + Mul(b[2], Mul(q1, q2) + Mul(q3, q4))
          - m.y,
          Mul(b[1], Mul(q1, q3) + Mul(q2, q4)) + Mul(b[2], half - q2q2 - q3q3) - m.z >>

\* Gradient descent algorithm corrective step: s1..s4.
correctiveStep(q, b, f) ==
    LET q1 == q[1]  q2 == q[2]  q3 == q[3]  q4 == q[4]
        t2q1 == 2 * q1  t2q2 == 2 * q2  t2q3 == 2 * q3  t2q4 == 2 * q4
        t2bx == b[1]  t2bz == b[2]
        t4bx == 2 * b[1]  t4bz == 2 * b[2]
    IN << -Mul(t2q3, f[1]) + Mul(t2q2, f[2])
          - Mul(Mul(t2bz, q3), f[4])
          + Mul(-Mul(t2bx, q4) + Mul(t2bz, q2), f[5])
          + Mul(Mul(t2bx, q3), f[6]),
          Mul(t2q4, f[1]) + Mul(t2q1, f[2])
          - Mul(4 * q2, f[3])
          + Mul(Mul(t2bz, q4), f[4])
          + Mul(Mul(t2bx, q3) + Mul(t2bz, q1), f[5])
          + Mul(Mul(t2bx, q4) - Mul(t4bz, q2), f[6]),
          -Mul(t2q1, f[1]) + Mul(t2q4, f[2])
          - Mul(4 * q3, f[3])
          + Mul(-Mul(t4bx, q3) - Mul(t2bz, q1), f[4])
          + Mul(Mul(t2bx, q2) + Mul(t2bz, q4), f[5])
          + Mul(Mul(t2bx, q1) - Mul(t4bz, q3), f[6]),
          Mul(t2q2, f[1]) + Mul(t2q3, f[2])
          + Mul(-Mul(t4bx, q4) + Mul(t2bz, q2), f[4])
          + Mul(-Mul(t2bx, q1) + Mul(t2bz, q3), f[5])
          + Mul(Mul(t2bx, q2), f[6]) >>

\* The gradient of the alignment error for unit a and unit (or zero) m.
MadgwickGradient(q, a, m) ==
    With(magReference(q, m), LAMBDA b :
    correctiveStep(q, b, errorTerms(q, a, m, b)))

\* s * recipNorm, recipNorm = 1 / Math.hypot(s1, s2, s3, s4 || 1)
normalizeStep(s) ==
    With(Div(Scale, Hypot4(s[1], s[2], s[3], IF s[4] = 0 THEN Scale ELSE s[4])),
         LAMBDA recipNorm :
    <<Mul(s[1], recipNorm), Mul(s[2], recipNorm), Mul(s[3], recipNorm),
      Mul(s[4], recipNorm)>>)

\* Rate of change of the quaternion from the gyroscope alone.
GyroRate(q, g) ==
    << RoundDiv(-Mul(q[2], g.x) - Mul(q[3], g.y) - Mul(q[4], g.z), 2),
       RoundDiv(Mul(q[1], g.x) + Mul(q[3], g.z) - Mul(q[4], g.y), 2),
       RoundDiv(Mul(q[1], g.y) - Mul(q[2], g.z) + Mul(q[4], g.x), 2),
       RoundDiv(Mul(q[1], g.z) + Mul(q[2], g.y) - Mul(q[3], g.x), 2) >>

\* qDot = rate - beta * sn; q += qDot * dt; qNormalize
integrateRate(q, rate, sn, dt) ==
    qNormalize(<<q[1] + MulDt(rate[1] - Mul(beta, sn[1]), dt),
                 q[2] + MulDt(rate[2] - Mul(beta, sn[2]), dt),
                 q[3] + MulDt(rate[3] - Mul(beta, sn[3]), dt),
                 q[4] + MulDt(rate[4] - Mul(beta, sn[4]), dt)>>)

unit3(v, n) == Vec(Div(v.x, n), Div(v.y, n), Div(v.z, n))

\* if (aNorm === 0) return;
MadgwickSkips(aNorm) == aNorm = 0

\* Madgwick.update: the new qwd.
MadgwickUpdate(qwd, g, a, m, dt) ==
    With(Hypot3(a.x, a.y, a.z), LAMBDA aNorm :
    With(Hypot3(m.x, m.y, m.z), LAMBDA mNorm :
    IF MadgwickSkips(aNorm) THEN qwd
    ELSE integrateRate(qwd, GyroRate(qwd, g),
            normalizeStep(MadgwickGradient(qwd, unit3(a, aNorm),
                                           IF mNorm # 0 THEN unit3(m, mNorm) ELSE m)),
            dt)))

\* ------------------------------------------------ rotation from Euler angles
\* Math.cos and Math.sin by their Taylor series (angles up to a full turn).
RECURSIVE TrigSeries(_, _, _)
TrigSeries(x, term, k) ==
    IF term = 0 THEN 0
    ELSE term + TrigSeries(x,
                -RoundDiv(RoundDiv(term * x, (k + 1) * Scale) * x, (k + 2) * Scale),
                k + 2)

Cos(x) == TrigSeries(x, Scale, 0)
Sin(x) == TrigSeries(x, x, 1)

identity3 == <<Scale, 0, 0, 0, Scale, 0, 0, 0, Scale>>

mult3x3Vec3(M, v) ==
    Vec(Mul(M[1], v.x) + Mul(M[2], v.y) + Mul(M[3], v.z),
        Mul(M[4], v.x) + Mul(M[5], v.y) + Mul(M[6], v.z),
        Mul(M[7], v.x) + Mul(M[8], v.y) + Mul(M[9], v.z))

mult3x3(A, B) ==
    [i \in 1..9 |->
        LET r == (i - 1) \div 3
            c == (i - 1) % 3
        IN Mul(A[3 * r + 1], B[c + 1]) + Mul(A[3 * r + 2], B[c + 4])
           + Mul(A[3 * r + 3], B[c + 7])]

\* R = Rz(alpha) * Rx(beta) * Ry(gamma), angles in radians.
eulerToMatrix(alphaRad, betaRad, gammaRad) ==
    LET cA == Cos(alphaRad)  sA == Sin(alphaRad)
        cB == Cos(betaRad)   sB == Sin(betaRad)
        cG == Cos(gammaRad)  sG == Sin(gammaRad)
    IN << Mul(cA, cG) - Mul(Mul(sA, sB), sG),
          -Mul(cB, sA),
          Mul(cA, sG) + Mul(Mul(cG, sA), sB),
          Mul(cG, sA) + Mul(Mul(cA, sB), sG),
          Mul(cA, cB),
          Mul(sA, sG) - Mul(Mul(cA, cG), sB),
          -Mul(cB, sG),
          sB,
          Mul(cB, cG) >>

\* screen.orientation: its type and angle (degrees); portrait leaves M alone.
applyScreenOrientation(M, screen) ==
    IF screen.landscape
    THEN LET deg == IF screen.angle # 0 THEN screen.angle
                    ELSE IF screen.secondary THEN 270 ELSE 90
             angle == DegToRad(deg * Scale)
             c == Cos(angle)
             sn == Sin(angle)
         IN mult3x3(<<c, -sn, 0, sn, c, 0, 0, 0, Scale>>, M)
    ELSE M

\* The rotation matrix of the legacy deviceorientation handler, as a
\* quaternion (device->world), normalized.
matrixToQuaternion(M) ==
    LET m00 == M[1]  m01 == M[2]  m02 == M[3]
        m10 == M[4]  m11 == M[5]  m12 == M[6]
        m20 == M[7]  m21 == M[8]  m22 == M[9]
        tr == m00 + m11 + m22
        q == IF tr > 0
             THEN LET S == 2 * Sqrt(tr + Scale)
                  IN <<RoundDiv(S, 4), Div(m21 - m12, S), Div(m02 - m20, S),
                       Div(m10 - m01, S)>>
             ELSE IF m00 > m11 /\ m00 > m22
             THEN LET S == 2 * Sqrt(Max(0, Scale + m00 - m11 - m22))
                  IN <<Div(m21 - m12, S), RoundDiv(S, 4), Div(m01 + m10, S),
                       Div(m02 + m20, S)>>
             ELSE IF m11 > m22
             THEN LET S == 2 * Sqrt(Max(0, Scale + m11 - m00 - m22))
                  IN <<Div(m02 - m20, S), Div(m01 + m10, S), RoundDiv(S, 4),
                       Div(m12 + m21, S)>>
             ELSE LET S == 2 * Sqrt(Max(0, Scale + m22 - m00 - m11))
                  IN <<Div(m10 - m01, S), Div(m02 + m20, S), Div(m12 + m21, S),
                       RoundDiv(S, 4)>>
    IN qNormalize(q)

\* ---------------------------------------------------------------- state
VARIABLES
    variant,      \* which of the three pipelines runs: "simple", "madgwick", "euler"
    host,         \* what the browser exposes (fixed for a behaviour)
    subs,         \* sensor instances / event listeners registered so far, by kind
    running, lastFrameT,
    pending,      \* loop callbacks requested for the next frame
    firing,       \* callbacks of the frame being delivered that have not run yet
    frameT,       \* timestamp of the frame being delivered
    hidden,       \* document.hidden
    tauVal, vWorld,           \* proper time; velocity (v in the simple variant)
    aDev, hp, R,              \* simple and euler: cached acceleration (a), high pass, matrix
    accInc, linAcc, gyro, mag, lastGyroTS,
    usingAbsoluteOrientation, qdw_abs, qwd,
    dmRotRate, dmTS,
    oriStatus, cval, tau, kboost,   \* els.oriStatus.textContent, settings fields
    nEvents,      \* events delivered so far
    frameSteps,   \* observation: step bodies run in the frame being delivered
    fresh,        \* observation: no step has run since the last Start click
    obs,          \* observation: what the last handler did (never read by the code)
    lastLin,      \* observation: the latest gravity-free acceleration delivered
    lastInc,      \* observation: the latest gravity-inclusive acceleration delivered
    newest,       \* observation: which of the two came last: "none", "lin", "inc"
    calc          \* the arithmetic of a step over the range of a double

driverVars == <<running, lastFrameT, pending, firing, frameT, hidden>>
pipeVars == <<tauVal, vWorld>>
cacheVars == <<aDev, hp, R>>
fusionVars == <<accInc, linAcc, gyro, mag, lastGyroTS, usingAbsoluteOrientation,
                qdw_abs, qwd, dmRotRate, dmTS>>
uiVars == <<oriStatus, cval, tau, kboost>>
envVars == <<variant, host, subs>>
countVars == <<nEvents>>
histVars == <<lastLin, lastInc, newest>>
progVars == <<driverVars, pipeVars, cacheVars, fusionVars, uiVars, envVars, countVars,
              frameSteps, fresh, obs, histVars>>
vars == <<progVars, calc>>

\* ------------------------------------------------------------ the host
Host(abs, las, acc, gyr, magn, dm, dor, throws, landscape) ==
    [abs |-> abs, las |-> las, acc |-> acc, gyr |-> gyr, magn |-> magn,
     dm |-> dm, dor |-> dor, throws |-> throws, landscape |-> landscape]

\* Every Generic Sensor class and both legacy events; accelerometer, gyroscope
\* and magnetometer only; legacy events only; nothing; and a host whose
\* Generic Sensor constructors throw (Permissions-Policy).
HostAll == Host(TRUE, TRUE, TRUE, TRUE, TRUE, TRUE, TRUE, "none", FALSE)
HostRaw == Host(FALSE, FALSE, TRUE, TRUE, TRUE, TRUE, TRUE, "none", FALSE)
HostLegacy == Host(FALSE, FALSE, FALSE, FALSE, FALSE, TRUE, TRUE, "none", FALSE)
HostLandscape == Host(FALSE, FALSE, FALSE, FALSE, FALSE, TRUE, TRUE, "none", TRUE)
HostNone == Host(FALSE, FALSE, FALSE, FALSE, FALSE, FALSE, FALSE, "none", FALSE)
HostDenied == Host(TRUE, TRUE, TRUE, TRUE, TRUE, TRUE, TRUE, "abs", FALSE)

Hosts(v) ==
    CASE v = "simple" -> {HostLegacy, HostNone}
      [] v = "euler" -> {HostLegacy, HostLandscape}
      [] OTHER -> {HostAll, HostRaw, HostLegacy, HostNone, HostDenied}

NoSubs == [abs |-> 0, las |-> 0, acc |-> 0, gyr |-> 0, magn |-> 0,
           dm |-> 0, dor |-> 0, motion |-> 0, ori |-> 0]

Timestamps == {k * TickMs : k \in 0..MaxTick}

\* ------------------------------------------------------- observations
NoUpdate == [g |-> Zero3, a |-> Zero3, m |-> Zero3, dt |-> 0]
Quiet(e) ==
    [event |-> e, stepped |-> FALSE, t |-> 0, prev |-> Null, dt |-> 0, dtau |-> 0,
     aDev |-> Zero3, aWorld |-> Zero3, amag |-> 0, omega |-> 0, decayed |-> FALSE, decay |-> Scale,
     vmag |-> 0, vEff |-> 0, gamma |-> [m |-> Scale, e |-> 0], first |-> FALSE, updates |-> 0, upd |-> NoUpdate]

SensorEvents == {"absolute", "linear", "accelerometer", "gyroscope", "magnetometer",
                 "devicemotion", "deviceorientation"}

\* ----------------------------------------------------------------- Init
InitProgram ==
    /\ variant \in {"simple", "madgwick", "euler"}
    /\ host \in Hosts(variant)
    /\ subs = NoSubs
    /\ running = FALSE
    /\ lastFrameT = Null
    /\ pending = 0
    /\ firing = 0
    /\ frameT = 0
    /\ hidden = FALSE
    /\ tauVal = 0
    /\ vWorld = Zero3
    /\ aDev = Zero3
    /\ hp = [x |-> 0, y |-> 0, z |-> 0, lastX |-> Null, lastY |-> Null, lastZ |-> Null]
    /\ R = identity3
    /\ accInc = Null
    /\ linAcc = Null
    /\ gyro = Null
    /\ mag = Null
    /\ lastGyroTS = Null
    /\ usingAbsoluteOrientation = FALSE
    /\ qdw_abs = QIdentity
    /\ qwd = QIdentity
    /\ dmRotRate = Null
    /\ dmTS = Null
    /\ oriStatus = ""
    /\ cval = "1"
    /\ tau = "3"
    /\ kboost = "0.5"
    /\ nEvents = 0
    /\ frameSteps = 0
    /\ fresh = FALSE
    /\ obs = Quiet("load")
    /\ lastLin = Null
    /\ lastInc = Null
    /\ newest = "none"

\* The arithmetic of one step over the whole range of a double, taken on its
\* own: the raw speed and the light speed it starts from, and what
\* limitSpeed, gammaFromV and dt / gamma make of them.
CalcIdle ==
    [stage |-> "idle", vmag |-> FZero, c |-> FOne, vEff |-> FZero, gamma |-> FOne,
     dtau |-> FZero]

Init == InitProgram /\ calc = CalcIdle

\* ------------------------------------------------------- starting sensors
\* startSensors / startAccel: the same function onMotion is registered each
\* time, which the event target keeps once.
startAccel(h, s) == IF h.dm THEN [s EXCEPT !.motion = 1] ELSE s

\* startOrientation: a new closure is registered on two event types.
startOrientation(h, s) == IF h.dor THEN [s EXCEPT !.ori = @ + 1] ELSE s

\* startGenericSensors: sensors are built in the order absolute orientation,
\* linear acceleration or accelerometer, gyroscope, magnetometer; the first
\* constructor that throws ends the function with false, the sensors started
\* before it stay started.
startGenericSensors(h, s) ==
    LET s1 == IF h.abs THEN [s EXCEPT !.abs = @ + 1] ELSE s
        s2 == IF h.las THEN [s1 EXCEPT !.las = @ + 1]
              ELSE IF h.acc THEN [s1 EXCEPT !.acc = @ + 1] ELSE s1
        s3 == IF h.gyr THEN [s2 EXCEPT !.gyr = @ + 1] ELSE s2
        s4 == IF h.magn THEN [s3 EXCEPT !.magn = @ + 1] ELSE s3
    IN IF h.abs /\ h.throws = "abs" THEN [ok |-> FALSE, subs |-> s]
       ELSE IF (h.las /\ h.throws = "las") \/ (~h.las /\ h.acc /\ h.throws = "acc")
       THEN [ok |-> FALSE, subs |-> s1]
       ELSE IF h.gyr /\ h.throws = "gyr" THEN [ok |-> FALSE, subs |-> s2]
       ELSE IF h.magn /\ h.throws = "magn" THEN [ok |-> FALSE, subs |-> s3]
       ELSE [ok |-> TRUE, subs |-> s4]

startLegacySensors(h, s) ==
    LET s1 == IF h.dm THEN [s EXCEPT !.dm = @ + 1] ELSE s
        s2 == IF h.dor THEN [s1 EXCEPT !.dor = @ + 1] ELSE s1
    IN [ok |-> h.dm \/ h.dor, subs |-> s2]

\* const started = startGenericSensors() || startLegacySensors();
startFusionSensors(h, s) ==
    LET g == startGenericSensors(h, s)
    IN IF g.ok THEN g ELSE startLegacySensors(h, g.subs)

\* ------------------------------------------------------------- controls
\* A Start click that keeps the reference of the previous run.
keepLastFrameT(last) == last

\* The previous-timestamp reference a Start click leaves behind.
startLastFrameT(last) == Null

\* click on startStop
StartStopClick ==
    /\ firing = 0
    /\ nEvents < MaxEvents
    /\ nEvents' = nEvents + 1
    /\ obs' = Quiet(IF running THEN "pause" ELSE "start")
    /\ fresh' = IF running THEN fresh ELSE TRUE
    /\ UNCHANGED <<frameSteps, histVars>>
    /\ IF ~running
       THEN /\ running' = TRUE
            /\ lastFrameT' = startLastFrameT(lastFrameT)
            /\ pending' = pending + 1
            /\ CASE variant = "simple" ->
                      /\ subs' = startAccel(host, subs)
                      /\ UNCHANGED oriStatus
                 [] variant = "euler" ->
                      /\ subs' = startAccel(host, startOrientation(host, subs))
                      /\ oriStatus' = IF host.dor THEN oriStatus ELSE "unsupported"
                 [] OTHER ->
                      LET st == startFusionSensors(host, subs)
                      IN /\ subs' = st.subs
                         /\ oriStatus' = IF st.ok THEN "starting" ELSE "no sensors"
       ELSE /\ running' = FALSE
            /\ UNCHANGED <<lastFrameT, pending, subs, oriStatus>>
    /\ UNCHANGED <<firing, frameT, hidden, pipeVars, cacheVars, fusionVars,
                   cval, tau, kboost, variant, host>>
    /\ UNCHANGED calc

\* A reset that forgets the velocity.
resetKeepsVelocity == [vWorld |-> vWorld, tauVal |-> 0]

\* click on reset: the velocity and proper time it leaves
resetPipeline == [vWorld |-> Zero3, tauVal |-> 0]

ResetClickRestarts ==
    /\ firing = 0
    /\ nEvents < MaxEvents
    /\ nEvents' = nEvents + 1
    /\ obs' = Quiet("reset")
    /\ UNCHANGED <<fresh, frameSteps, histVars>>
    /\ tauVal' = resetPipeline.tauVal
    /\ vWorld' = resetPipeline.vWorld
    /\ IF variant = "madgwick"
       THEN UNCHANGED <<aDev, hp>>
       ELSE /\ aDev' = Zero3
            /\ hp' = [x |-> 0, y |-> 0, z |-> 0,
                      lastX |-> Null, lastY |-> Null, lastZ |-> Null]
    /\ lastFrameT' = Null
    /\ UNCHANGED <<running, pending, firing, frameT, hidden>>
    /\ UNCHANGED <<R, fusionVars, uiVars, envVars>>
    /\ UNCHANGED calc

ResetClick ==
    /\ firing = 0
    /\ nEvents < MaxEvents
    /\ nEvents' = nEvents + 1
    /\ obs' = Quiet("reset")
    /\ UNCHANGED <<fresh, frameSteps, histVars>>
    /\ tauVal' = resetPipeline.tauVal
    /\ vWorld' = resetPipeline.vWorld
    /\ IF variant = "madgwick"
       THEN UNCHANGED <<aDev, hp>>
       ELSE /\ aDev' = Zero3
            /\ hp' = [x |-> 0, y |-> 0, z |-> 0,
                      lastX |-> Null, lastY |-> Null, lastZ |-> Null]
    /\ UNCHANGED <<driverVars, R, fusionVars, uiVars, envVars>>
    /\ UNCHANGED calc

\* visibilitychange: the document becomes hidden or visible again
VisibilityChange ==
    /\ firing = 0
    /\ nEvents < MaxEvents
    /\ nEvents' = nEvents + 1
    /\ hidden' = ~hidden
    /\ obs' = Quiet(IF hidden THEN "visible" ELSE "hidden")
    /\ UNCHANGED <<fresh, frameSteps, histVars>>
    /\ running' = IF hidden' /\ running THEN FALSE ELSE running
    /\ UNCHANGED <<lastFrameT, pending, firing, frameT, pipeVars, cacheVars,
                   fusionVars, uiVars, envVars>>
    /\ UNCHANGED calc

\* the user edits a settings field
EditSettings ==
    /\ firing = 0
    /\ nEvents < MaxEvents
    /\ nEvents' = nEvents + 1
    /\ obs' = Quiet("settings")
    /\ UNCHANGED <<fresh, frameSteps, histVars>>
    /\ \/ cval' \in {"abc", "0.1", "0.001"} /\ UNCHANGED <<tau, kboost>>
       \/ tau' \in {"0", "0.5"} /\ UNCHANGED <<cval, kboost>>
       \/ kboost' \in {"-2", "0"} /\ variant = "madgwick" /\ UNCHANGED <<cval, tau>>
    /\ UNCHANGED <<driverVars, pipeVars, cacheVars, fusionVars, oriStatus,
                   envVars>>
    /\ UNCHANGED calc

\* ------------------------------------- devicemotion (simple and euler)
\* A gate that lets everything through.
gateOpen(x) == x

\* if (Math.abs(ax) < GATE) ax = 0;
gate(x) == IF Abs(x) < GATE THEN 0 ELSE x
gate3(v) == Vec(gate(v.x), gate(v.y), gate(v.z))

\* onMotion: the gravity-free acceleration when the event has it, else the
\* high-passed gravity-inclusive one; the noise gate; the cache.
onMotion(e, h) ==
    IF ~IsNull(e.acceleration)
    THEN [a |-> gate3(e.acceleration[1]), hp |-> h]
    ELSE LET g == OrElse(e.accelerationIncludingGravity, Zero3)
             h2 == [x |-> Mul(HP_ALPHA, h.x + g.x - OrElse(h.lastX, g.x)),
                    y |-> Mul(HP_ALPHA, h.y + g.y - OrElse(h.lastY, g.y)),
                    z |-> Mul(HP_ALPHA, h.z + g.z - OrElse(h.lastZ, g.z)),
                    lastX |-> Some(g.x), lastY |-> Some(g.y), lastZ |-> Some(g.z)]
         IN [a |-> gate3(Vec(h2.x, h2.y, h2.z)), hp |-> h2]

MotionEvent(acc, accG) == [acceleration |-> acc, accelerationIncludingGravity |-> accG]
MotionEvents ==
    { MotionEvent(Some(Vec(Scale, 0, 0)), Null),
      MotionEvent(Some(Vec((3 * GATE) \div 2, 0, 0)), Null),
      MotionEvent(Some(Vec(GATE - 10, GATE, 0)), Null),
      MotionEvent(Null, Some(Vec(0, 0, G))),
      MotionEvent(Null, Some(Vec(Scale, 0, G))),
      MotionEvent(Null, Null) }

DeviceMotion ==
    /\ variant \in {"simple", "euler"}
    /\ firing = 0 /\ ~hidden
    /\ subs.motion > 0
    /\ nEvents < MaxEvents
    /\ nEvents' = nEvents + 1
    /\ \E e \in MotionEvents :
          LET r == onMotion(e, hp)
          IN aDev' = r.a /\ hp' = r.hp
    /\ obs' = Quiet("devicemotion")
    /\ UNCHANGED <<fresh, frameSteps, histVars>>
    /\ UNCHANGED <<driverVars, pipeVars, R, fusionVars, uiVars, envVars>>
    /\ UNCHANGED calc

\* ------------------------------------------ deviceorientation (euler)
\* The handler of startOrientation; angles in degrees, any of them null in
\* an event without data.
OrientationEvents == {Null, Some(<<0, 0, 0>>), Some(<<90, 0, 0>>), Some(<<0, 0, 45>>)}

orientationMatrix(angles, h) ==
    applyScreenOrientation(
        eulerToMatrix(DegToRad(angles[1] * Scale), DegToRad(angles[2] * Scale),
                      DegToRad(angles[3] * Scale)),
        [landscape |-> h.landscape, angle |-> 0, secondary |-> FALSE])

DeviceOrientationEuler ==
    /\ variant = "euler"
    /\ firing = 0 /\ ~hidden
    /\ subs.ori > 0
    /\ nEvents < MaxEvents
    /\ nEvents' = nEvents + 1
    /\ \E e \in OrientationEvents :
          IF IsNull(e)
          THEN oriStatus' = "no data" /\ R' = R
          ELSE oriStatus' = "ok" /\ R' = orientationMatrix(e[1], host)
    /\ obs' = Quiet("deviceorientation")
    /\ UNCHANGED <<fresh, frameSteps, histVars>>
    /\ UNCHANGED <<driverVars, pipeVars, aDev, hp, fusionVars, cval, tau, kboost,
                   envVars>>
    /\ UNCHANGED calc

\* ------------------------------------------------------------ the loop
\* The timestamp difference without a clamp, and clamped at one millisecond.
frameDtUnclamped(t, last) == t - last
frameDtFloored(t, last) == Max(1, t - last)

\* const dt = Math.max(0, (t - lastFrameT) / 1000);
frameDt(t, last) == Max(0, t - last)

\* The stillness test with the threshold itself counted as still.
driftAppliesAtThreshold(amag) == amag <= Mul(GATE, (3 * Scale) \div 2)

\* if (amag === 0 || amag < GATE * 1.5)
driftApplies(amag) == amag = 0 \/ amag < Mul(GATE, (3 * Scale) \div 2)

\* A loop that never looks at the flag.
loopAlways(r) == TRUE

\* if (!running) return;
loopRuns(r) == r

scale3(v, k) == Vec(Mul(v.x, k), Mul(v.y, k), Mul(v.z, k))

\* The loop of the simple and the euler variant, from "Integrate" on: a is
\* the acceleration integrated (a itself, or R * aDev).
loopPlain(t, a) ==
    With(frameDt(t, OrElse(lastFrameT, t)), LAMBDA dt :
    With(norm3(a.x, a.y, a.z), LAMBDA amag :
    With(driftApplies(amag), LAMBDA decays :
    With(IF decays THEN ExpNeg(Div(dt, getTau(tau))) ELSE Scale, LAMBDA decay :
    With(IF decays THEN scale3(addScaled(vWorld, a, dt), decay)
         ELSE addScaled(vWorld, a, dt), LAMBDA v2 :
    With(norm3(v2.x, v2.y, v2.z), LAMBDA vmag :
    With(limitSpeed(vmag, getC(cval)), LAMBDA vEff :
    With(gammaFromV(vEff, getC(cval)), LAMBDA gamma :
    With(DivGamma(dt, gamma), LAMBDA dtau :
    [vWorld |-> v2, tauVal |-> tauVal + dtau,
     obs |-> [Quiet("loop") EXCEPT !.stepped = TRUE, !.t = t, !.prev = lastFrameT,
                !.dt = dt, !.dtau = dtau, !.aDev = aDev, !.aWorld = a, !.amag = amag,
                !.decayed = decays, !.decay = decay, !.vmag = vmag,
                !.vEff = vEff, !.gamma = gamma]])))))))))

\* ----------------------------------------- Generic Sensor API (madgwick)
\* The sensor clock: readings carry increasing timestamps.
readingTime == (nEvents + 1) * TickMs

QuarterTurnZ == qNormalize(<<Scale, 0, 0, Scale>>)
AbsoluteReadings == {Null, Some(QIdentity), Some(QuarterTurnZ)}
LinearReadings == {Zero3, Vec(GATE, 0, 0), Vec(Scale, 0, 0)}
GravityReadings == {Vec(0, 0, G), Vec(Scale, 0, G)}
GyroReadings == {Vec(Scale, 0, 0), Vec(0, 0, Scale \div 5)}
MagReadings == {Zero3, Vec(3 * Scale, 0, 4 * Scale)}

\* AbsoluteOrientationSensor 'reading'
AbsoluteReading ==
    /\ variant = "madgwick"
    /\ firing = 0 /\ ~hidden
    /\ subs.abs > 0
    /\ nEvents < MaxEvents
    /\ nEvents' = nEvents + 1
    /\ \E q \in AbsoluteReadings :
          IF IsNull(q)
          THEN UNCHANGED <<qdw_abs, usingAbsoluteOrientation, oriStatus>>
          ELSE /\ qdw_abs' = q[1]
               /\ usingAbsoluteOrientation' = TRUE
               /\ oriStatus' = "absolute (quaternion)"
    /\ obs' = Quiet("absolute")
    /\ UNCHANGED <<fresh, frameSteps, histVars>>
    /\ UNCHANGED <<driverVars, pipeVars, cacheVars, accInc, linAcc, gyro, mag,
                   lastGyroTS, qwd, dmRotRate, dmTS, cval, tau, kboost, envVars>>
    /\ UNCHANGED calc

\* LinearAccelerationSensor 'reading'
LinearReading ==
    /\ variant = "madgwick"
    /\ firing = 0 /\ ~hidden
    /\ subs.las > 0
    /\ nEvents < MaxEvents
    /\ nEvents' = nEvents + 1
    /\ \E v \in LinearReadings : linAcc' = Some(v)
    /\ lastLin' = linAcc' /\ newest' = "lin" /\ UNCHANGED lastInc
    /\ obs' = Quiet("linear")
    /\ UNCHANGED <<fresh, frameSteps>>
    /\ UNCHANGED <<driverVars, pipeVars, cacheVars, accInc, gyro, mag, lastGyroTS,
                   usingAbsoluteOrientation, qdw_abs, qwd, dmRotRate, dmTS, uiVars,
                   envVars>>
    /\ UNCHANGED calc

\* Accelerometer 'reading'
AccelerometerReading ==
    /\ variant = "madgwick"
    /\ firing = 0 /\ ~hidden
    /\ subs.acc > 0
    /\ nEvents < MaxEvents
    /\ nEvents' = nEvents + 1
    /\ \E v \in GravityReadings : accInc' = Some(v)
    /\ lastInc' = accInc' /\ newest' = "inc" /\ UNCHANGED lastLin
    /\ obs' = Quiet("accelerometer")
    /\ UNCHANGED <<fresh, frameSteps>>
    /\ UNCHANGED <<driverVars, pipeVars, cacheVars, linAcc, gyro, mag, lastGyroTS,
                   usingAbsoluteOrientation, qdw_abs, qwd, dmRotRate, dmTS, uiVars,
                   envVars>>
    /\ UNCHANGED calc

\* Magnetometer 'reading'
MagnetometerReading ==
    /\ variant = "madgwick"
    /\ firing = 0 /\ ~hidden
    /\ subs.magn > 0
    /\ nEvents < MaxEvents
    /\ nEvents' = nEvents + 1
    /\ \E v \in MagReadings : mag' = Some(v)
    /\ obs' = Quiet("magnetometer")
    /\ UNCHANGED <<fresh, frameSteps, histVars>>
    /\ UNCHANGED <<driverVars, pipeVars, cacheVars, accInc, linAcc, gyro, lastGyroTS,
                   usingAbsoluteOrientation, qdw_abs, qwd, dmRotRate, dmTS, uiVars,
                   envVars>>
    /\ UNCHANGED calc

\* const dt = Math.max(0.0001, (t - lastGyroTS) / 1000), in units of 1/DtUnit s
gyroDt(t, last) == Max(1, (t - last) * (DtUnit \div Scale))

\* One run of the Gyroscope 'reading' handler on the fields it touches:
\* a = linAcc ?? accInc; the filter runs when a and mag are there and a
\* previous sample gave lastGyroTS.
gyroFuses(st) ==
    ~IsNull(st.lastGyroTS) /\ ~(IsNull(linAcc) /\ IsNull(accInc)) /\ ~IsNull(mag)

gyroUpdate(st, g, a, dt) ==
    [gyro |-> Some(g),
     lastGyroTS |-> st.lastGyroTS,
     qwd |-> MadgwickUpdate(st.qwd, g, a, mag[1], dt),
     usingAbs |-> FALSE,
     oriStatus |-> "Madgwick (fusion)",
     updates |-> st.updates + 1,
     upd |-> [g |-> g, a |-> a, m |-> mag[1], dt |-> dt]]

gyroHandler(st, g, t) ==
    [(IF gyroFuses(st)
      THEN gyroUpdate(st, g, IF ~IsNull(linAcc) THEN linAcc[1] ELSE accInc[1],
                      gyroDt(t, st.lastGyroTS[1]))
      ELSE [st EXCEPT !.gyro = Some(g)])
     EXCEPT !.lastGyroTS = Some(t)]

\* Every Gyroscope instance started so far delivers the sample to its handler.
RECURSIVE gyroHandlers(_, _, _, _)
gyroHandlers(st, g, t, n) ==
    IF n = 0 THEN st ELSE gyroHandlers(gyroHandler(st, g, t), g, t, n - 1)

\* The fields the handlers leave behind.
gyroCommit(st) ==
    /\ gyro' = st.gyro
    /\ lastGyroTS' = st.lastGyroTS
    /\ qwd' = st.qwd
    /\ usingAbsoluteOrientation' = st.usingAbs
    /\ oriStatus' = st.oriStatus
    /\ obs' = [Quiet("gyroscope") EXCEPT !.updates = st.updates, !.upd = st.upd]

GyroscopeReading ==
    /\ variant = "madgwick"
    /\ firing = 0 /\ ~hidden
    /\ subs.gyr > 0
    /\ nEvents < MaxEvents
    /\ nEvents' = nEvents + 1
    /\ \E g \in GyroReadings :
          gyroCommit(gyroHandlers(
                      [gyro |-> gyro, lastGyroTS |-> lastGyroTS, qwd |-> qwd,
                       usingAbs |-> usingAbsoluteOrientation, oriStatus |-> oriStatus,
                       updates |-> 0, upd |-> NoUpdate],
                      g, readingTime, subs.gyr))
    /\ UNCHANGED <<fresh, frameSteps, histVars>>
    /\ UNCHANGED <<driverVars, pipeVars, cacheVars, accInc, linAcc, mag, qdw_abs,
                   dmRotRate, dmTS, cval, tau, kboost, envVars>>
    /\ UNCHANGED calc

\* ------------------------------------------- legacy events (madgwick)
\* rotationRate is in degrees per second: 57.296 deg/s is 1 rad/s.
OneRadPerSec == RoundDiv(57295780, Scale)
FusionMotionEvent(acc, accG, rot) ==
    [acceleration |-> acc, accelerationIncludingGravity |-> accG, rotationRate |-> rot]
FusionMotionEvents ==
    { FusionMotionEvent(Some(Zero3), Null, Some(Vec(OneRadPerSec, 0, 0))),
      FusionMotionEvent(Some(Vec(GATE, 0, 0)), Null, Some(Vec(OneRadPerSec, 0, 0))),
      FusionMotionEvent(Some(Vec(Scale, 0, 0)), Null, Null),
      FusionMotionEvent(Null, Some(Vec(Scale, 0, G)), Some(Vec(0, 0, OneRadPerSec))) }

\* the devicemotion listener of startLegacySensors
DeviceMotionFusion ==
    /\ variant = "madgwick"
    /\ firing = 0 /\ ~hidden
    /\ subs.dm > 0
    /\ nEvents < MaxEvents
    /\ nEvents' = nEvents + 1
    /\ \E e \in FusionMotionEvents :
          /\ IF ~IsNull(e.acceleration)
             THEN /\ linAcc' = e.acceleration /\ UNCHANGED accInc
                  /\ lastLin' = e.acceleration /\ newest' = "lin" /\ UNCHANGED lastInc
             ELSE IF ~IsNull(e.accelerationIncludingGravity)
             THEN /\ accInc' = e.accelerationIncludingGravity /\ UNCHANGED linAcc
                  /\ lastInc' = e.accelerationIncludingGravity /\ newest' = "inc"
                  /\ UNCHANGED lastLin
             ELSE UNCHANGED <<linAcc, accInc, histVars>>
          /\ dmRotRate' = IF IsNull(e.rotationRate) THEN dmRotRate
                          ELSE LET rr == e.rotationRate[1]
                               IN Some(Vec(DegToRad(rr.x), DegToRad(rr.y), DegToRad(rr.z)))
    /\ dmTS' = Some(readingTime)
    /\ obs' = Quiet("devicemotion")
    /\ UNCHANGED <<fresh, frameSteps>>
    /\ UNCHANGED <<driverVars, pipeVars, cacheVars, gyro, mag, lastGyroTS,
                   usingAbsoluteOrientation, qdw_abs, qwd, uiVars, envVars>>
    /\ UNCHANGED calc

\* the deviceorientation listener of startLegacySensors
DeviceOrientationFusion ==
    /\ variant = "madgwick"
    /\ firing = 0 /\ ~hidden
    /\ subs.dor > 0
    /\ nEvents < MaxEvents
    /\ nEvents' = nEvents + 1
    /\ \E e \in OrientationEvents :
          IF IsNull(e)
          THEN UNCHANGED <<qdw_abs, usingAbsoluteOrientation, oriStatus>>
          ELSE /\ qdw_abs' = matrixToQuaternion(
                                eulerToMatrix(DegToRad(e[1][1] * Scale),
                                              DegToRad(e[1][2] * Scale),
                                              DegToRad(e[1][3] * Scale)))
               /\ usingAbsoluteOrientation' = TRUE
               /\ oriStatus' = "deviceorientation (fallback)"
    /\ obs' = Quiet("deviceorientation")
    /\ UNCHANGED <<fresh, frameSteps, histVars>>
    /\ UNCHANGED <<driverVars, pipeVars, cacheVars, accInc, linAcc, gyro, mag,
                   lastGyroTS, qwd, dmRotRate, dmTS, cval, tau, kboost, envVars>>
    /\ UNCHANGED calc

\* --------------------------------------------------- the madgwick loop
sub3(a, b) == Vec(a.x - b.x, a.y - b.y, a.z - b.z)

\* getLinearAccDev that looks at the gravity-inclusive cache first.
getLinearAccDevIncFirst(q) ==
    IF ~IsNull(accInc)
    THEN sub3(accInc[1],
              qRotateVec(IF usingAbsoluteOrientation THEN qConj(qdw_abs) ELSE q,
                         Vec(0, 0, -G)))
    ELSE IF ~IsNull(linAcc) THEN linAcc[1]
    ELSE Zero3

\* getLinearAccDev, given the filter quaternion of this step.
getLinearAccDev(q) ==
    IF ~IsNull(linAcc) THEN linAcc[1]
    ELSE IF ~IsNull(accInc)
    THEN sub3(accInc[1],
              qRotateVec(IF usingAbsoluteOrientation THEN qConj(qdw_abs) ELSE q,
                         Vec(0, 0, -G)))
    ELSE Zero3

\* A time constant that ignores the Lorentz factor.
tauEffectiveFlat(t, k, gamma) == t

\* const tauEff = tau / (1 + k * (gamma - 1)); with the guard value of gamma
\* and k > 0 the quotient is below every fixed-point unit.
tauEffective(t, k, gamma) ==
    IF gamma.e = 0 THEN Div(t, Scale + Mul(k, gamma.m - Scale))
    ELSE IF k = 0 THEN t ELSE 0

\* A decay that leaves the velocity as it is.
decayFactorNone(dt, tauEff) == Scale

\* Math.exp(-dt / tauEff)
decayFactor(dt, tauEff) ==
    IF tauEff = 0 THEN (IF dt = 0 THEN Scale ELSE 0) ELSE ExpNeg(Div(dt, tauEff))

vecNorm(o) == IF IsNull(o) THEN 0 ELSE norm3(o[1].x, o[1].y, o[1].z)

\* Legacy fusion runs in the loop when no absolute orientation is in use and
\* devicemotion delivered a rotation rate and an acceleration.
legacyFuses ==
    /\ ~usingAbsoluteOrientation
    /\ ~IsNull(dmRotRate)
    /\ ~IsNull(dmTS) /\ dmTS # Some(0)
    /\ ~(IsNull(linAcc) /\ IsNull(accInc))

legacyUpdate(dt) ==
    [g |-> dmRotRate[1],
     a |-> IF ~IsNull(linAcc) THEN linAcc[1] ELSE accInc[1],
     m |-> OrElse(mag, Zero3),
     dt |-> dt * (DtUnit \div Scale)]

\* The loop of the madgwick variant from "Integrate" on: q is the filter
\* quaternion of this step, aGated the gated device-frame acceleration.
loopIntegrate(t, dt, q, aGated, fuse) ==
    With(qRotateVec(IF usingAbsoluteOrientation THEN qdw_abs ELSE qConj(q), aGated),
         LAMBDA aWorld :
    With(addScaled(vWorld, aWorld, dt), LAMBDA v1 :
    With(norm3(v1.x, v1.y, v1.z), LAMBDA vmag :
    With(limitSpeed(vmag, getC(cval)), LAMBDA vEff :
    With(gammaFromV(vEff, getC(cval)), LAMBDA gamma :
    With(norm3(aWorld.x, aWorld.y, aWorld.z), LAMBDA amag :
    With(driftApplies(amag), LAMBDA decays :
    With(IF decays
         THEN decayFactor(dt, tauEffective(getTau(tau), getK(kboost), gamma))
         ELSE Scale, LAMBDA decay :
    With(DivGamma(dt, gamma), LAMBDA dtau :
    [vWorld |-> IF decays THEN scale3(v1, decay) ELSE v1,
     tauVal |-> tauVal + dtau,
     qwd |-> q,
     \* the gate writes into the object getLinearAccDev returned: linAcc itself
     linAcc |-> IF ~IsNull(linAcc) THEN Some(aGated) ELSE linAcc,
     oriStatus |-> IF fuse THEN "Madgwick (legacy)" ELSE oriStatus,
     obs |-> [Quiet("loop") EXCEPT !.stepped = TRUE, !.t = t, !.prev = lastFrameT,
                !.dt = dt, !.dtau = dtau, !.aDev = aGated, !.aWorld = aWorld,
                !.amag = amag,
                !.omega = Max(vecNorm(gyro), vecNorm(dmRotRate)),
                !.decayed = decays, !.decay = decay, !.vmag = vmag,
                !.vEff = vEff, !.gamma = gamma,
                !.updates = IF fuse THEN 1 ELSE 0,
                !.upd = IF fuse THEN legacyUpdate(dt) ELSE NoUpdate]])))))))))

loopMadgwick(t) ==
    With(frameDt(t, OrElse(lastFrameT, t)), LAMBDA dt :
    With(IF legacyFuses
         THEN MadgwickUpdate(qwd, legacyUpdate(dt).g, legacyUpdate(dt).a,
                             legacyUpdate(dt).m, legacyUpdate(dt).dt)
         ELSE qwd, LAMBDA q :
    loopIntegrate(t, dt, q, gate3(getLinearAccDev(q)), legacyFuses)))

\* ------------------------------------------------------- frames
\* The host delivers a frame: every callback requested so far will run with
\* the frame's timestamp; callbacks requested meanwhile wait for the next one.
Frame ==
    /\ firing = 0 /\ ~hidden
    /\ pending > 0
    /\ nEvents < MaxEvents
    /\ nEvents' = nEvents + 1
    /\ \E t \in Timestamps : frameT' = t
    /\ firing' = pending
    /\ pending' = 0
    /\ frameSteps' = 0
    /\ obs' = Quiet("frame")
    /\ UNCHANGED <<running, lastFrameT, hidden, pipeVars, cacheVars, fusionVars,
                   uiVars, envVars, fresh, histVars>>
    /\ UNCHANGED calc

\* What one run of the step body leaves behind.
loopCommit(r) ==
    /\ lastFrameT' = Some(frameT)
    /\ vWorld' = r.vWorld
    /\ tauVal' = r.tauVal
    /\ IF variant = "madgwick"
       THEN qwd' = r.qwd /\ linAcc' = r.linAcc /\ oriStatus' = r.oriStatus
       ELSE UNCHANGED <<qwd, linAcc, oriStatus>>
    /\ obs' = [r.obs EXCEPT !.first = fresh]
    /\ pending' = pending + 1
    /\ frameSteps' = frameSteps + 1
    /\ fresh' = FALSE

\* loop(t): one requested callback runs.
Loop ==
    /\ firing > 0
    /\ firing' = firing - 1
    /\ IF loopRuns(running)
       THEN loopCommit(CASE variant = "simple" -> loopPlain(frameT, aDev)
                         [] variant = "euler" -> loopPlain(frameT, mult3x3Vec3(R, aDev))
                         [] OTHER -> loopMadgwick(frameT))
       ELSE /\ obs' = Quiet("loop")
            /\ UNCHANGED <<lastFrameT, vWorld, tauVal, qwd, linAcc, oriStatus, pending,
                           frameSteps, fresh>>
    /\ UNCHANGED <<running, frameT, hidden, cacheVars, accInc, gyro, mag, lastGyroTS,
                   usingAbsoluteOrientation, qdw_abs, dmRotRate, dmTS, cval, tau,
                   kboost, envVars, countVars, histVars>>
    /\ UNCHANGED calc

\* ------------------------------------------------------------ the system
Next ==
    \/ StartStopClick
    \/ ResetClick
    \/ VisibilityChange
    \/ EditSettings
    \/ DeviceMotion
    \/ DeviceOrientationEuler
    \/ AbsoluteReading
    \/ LinearReading
    \/ AccelerometerReading
    \/ MagnetometerReading
    \/ GyroscopeReading
    \/ DeviceMotionFusion
    \/ DeviceOrientationFusion
    \/ Frame
    \/ Loop

Spec == Init /\ [][Next]_vars

\* ----------------------------------- a step's arithmetic in double range
\* Raw speeds a loop can hold, and the dt of a frame at 60 Hz.
RawSpeeds == {FZero, FRound(1, -3), FRound(5, -1), FOne, FRound(25, 0), FRound(1, 3)}
FrameDouble == FRound(1667, -5)

InitDouble ==
    /\ InitProgram
    /\ variant = "simple" /\ host = HostLegacy
    /\ \E v \in RawSpeeds, text \in DoubleTexts :
           calc = [CalcIdle EXCEPT !.stage = "read", !.vmag = v, !.c = getCDouble(text)]

\* const vEff = limitSpeed(vmag, c);
LimitStep ==
    /\ calc.stage = "read"
    /\ calc' = [calc EXCEPT !.stage = "limited", !.vEff = limitSpeedDouble(calc.vmag, calc.c)]
    /\ UNCHANGED progVars

\* const gamma = gammaFromV(vEff, c);
GammaStep ==
    /\ calc.stage = "limited"
    /\ calc' = [calc EXCEPT !.stage = "gamma", !.gamma = gammaFromVDouble(calc.vEff, calc.c)]
    /\ UNCHANGED progVars

\* tauVal += dt / gamma;
TauStep ==
    /\ calc.stage = "gamma"
    /\ calc' = [calc EXCEPT !.stage = "done", !.dtau = FDiv(FrameDouble, calc.gamma)]
    /\ UNCHANGED progVars

NextDouble ==
    \/ LimitStep
    \/ GammaStep
    \/ TauStep

SpecDouble == InitDouble /\ [][NextDouble]_vars

\* ------------------------------------------------------- a steady run
\* The timer has been started and the acceleration sensor has delivered one
\* reading, (1,0,0) m/s^2 free of gravity, with the device at rest and in
\* identity orientation.  From here the host delivers frames at a steady
\* 60 Hz, and at some moment the sensor may report that the acceleration has
\* ended.  The event budget of Spec plays no part (nEvents stays 0).
FrameHz == 60
FrameTime(k) == RoundDiv(k * Scale, FrameHz)
FrameIndex == IF IsNull(lastFrameT) THEN -1 ELSE RoundDiv(frameT * FrameHz, Scale)
Push == Vec(Scale, 0, 0)

InitRun ==
    /\ variant \in {"simple", "madgwick", "euler"}
    /\ host = IF variant = "madgwick" THEN HostAll ELSE HostLegacy
    /\ subs = CASE variant = "simple" -> startAccel(host, NoSubs)
                [] variant = "euler" -> startAccel(host, startOrientation(host, NoSubs))
                [] OTHER -> startFusionSensors(host, NoSubs).subs
    /\ running = TRUE
    /\ lastFrameT = startLastFrameT(Null)
    /\ pending = 1
    /\ firing = 0
    /\ frameT = 0
    /\ hidden = FALSE
    /\ tauVal = 0
    /\ vWorld = Zero3
    /\ hp = [x |-> 0, y |-> 0, z |-> 0, lastX |-> Null, lastY |-> Null, lastZ |-> Null]
    /\ aDev = IF variant = "madgwick" THEN Zero3
              ELSE onMotion(MotionEvent(Some(Push), Null), hp).a
    /\ R = identity3
    /\ accInc = Null
    /\ linAcc = IF variant = "madgwick" THEN Some(Push) ELSE Null
    /\ gyro = Null
    /\ mag = Null
    /\ lastGyroTS = Null
    /\ usingAbsoluteOrientation = FALSE
    /\ qdw_abs = QIdentity
    /\ qwd = QIdentity
    /\ dmRotRate = Null
    /\ dmTS = Null
    /\ oriStatus = IF variant = "madgwick" THEN "starting" ELSE ""
    /\ cval \in {"1", "0.1"}
    /\ tau = "3"
    /\ kboost \in IF variant = "madgwick" THEN {"0.5", "0"} ELSE {"0.5"}
    /\ nEvents = 0
    /\ frameSteps = 0
    /\ fresh = TRUE
    /\ obs = Quiet(IF variant = "madgwick" THEN "linear" ELSE "devicemotion")
    /\ lastLin = linAcc
    /\ lastInc = Null
    /\ newest = IF variant = "madgwick" THEN "lin" ELSE "none"
    /\ calc = CalcIdle

\* The host delivers the next frame of the run.
FrameRun ==
    /\ firing = 0 /\ ~hidden
    /\ pending > 0
    /\ FrameIndex < RunSteps
    /\ frameT' = FrameTime(FrameIndex + 1)
    /\ firing' = pending
    /\ pending' = 0
    /\ frameSteps' = 0
    /\ obs' = Quiet("frame")
    /\ UNCHANGED <<running, lastFrameT, hidden, pipeVars, cacheVars, fusionVars,
                   uiVars, envVars, countVars, fresh, histVars>>
    /\ UNCHANGED calc

\* The sensor reports that the acceleration has ended: a devicemotion event
\* (simple, euler) or a LinearAccelerationSensor reading (madgwick) of zero.
Release ==
    /\ firing = 0 /\ ~hidden
    /\ IF variant = "madgwick"
       THEN /\ linAcc # Some(Zero3)
            /\ linAcc' = Some(Zero3)
            /\ lastLin' = linAcc' /\ newest' = "lin"
            /\ obs' = Quiet("linear")
            /\ UNCHANGED <<aDev, hp, lastInc>>
       ELSE /\ aDev # Zero3
            /\ aDev' = onMotion(MotionEvent(Some(Zero3), Null), hp).a
            /\ hp' = onMotion(MotionEvent(Some(Zero3), Null), hp).hp
            /\ obs' = Quiet("devicemotion")
            /\ UNCHANGED <<linAcc, histVars>>
    /\ UNCHANGED <<driverVars, pipeVars, R, accInc, gyro, mag, lastGyroTS,
                   usingAbsoluteOrientation, qdw_abs, qwd, dmRotRate, dmTS, uiVars,
                   envVars, countVars, fresh, frameSteps>>
    /\ UNCHANGED calc

NextRun ==
    \/ FrameRun
    \/ Loop
    \/ Release

SpecRun == InitRun /\ [][NextRun]_vars

\* ------------------------------------------- sensors already delivering
\* The madgwick variant on a host with every Generic Sensor class, after a
\* Start click and a first reading of the linear acceleration sensor, the
\* magnetometer and the gyroscope (which, being the first, only left its
\* timestamp): from here every further reading of the gyroscope runs the
\* filter.  The event budget starts again at 0.
InitFusion ==
    /\ variant = "madgwick"
    /\ host = HostAll
    /\ subs = startFusionSensors(host, NoSubs).subs
    /\ running = TRUE
    /\ lastFrameT = startLastFrameT(Null)
    /\ pending = 1
    /\ firing = 0
    /\ frameT = 0
    /\ hidden = FALSE
    /\ tauVal = 0
    /\ vWorld = Zero3
    /\ aDev = Zero3
    /\ hp = [x |-> 0, y |-> 0, z |-> 0, lastX |-> Null, lastY |-> Null, lastZ |-> Null]
    /\ R = identity3
    /\ accInc = Null
    /\ linAcc = Some(Push)
    /\ gyro = Some(Vec(Scale, 0, 0))
    /\ mag = Some(Vec(3 * Scale, 0, 4 * Scale))
    /\ lastGyroTS = Some(0)
    /\ usingAbsoluteOrientation = FALSE
    /\ qdw_abs = QIdentity
    /\ qwd = QIdentity
    /\ dmRotRate = Null
    /\ dmTS = Null
    /\ oriStatus = "starting"
    /\ cval = "1"
    /\ tau = "3"
    /\ kboost = "0.5"
    /\ nEvents = 0
    /\ frameSteps = 0
    /\ fresh = TRUE
    /\ obs = Quiet("gyroscope")
    /\ lastLin = linAcc
    /\ lastInc = Null
    /\ newest = "lin"
    /\ calc = CalcIdle

NextFusion ==
    \/ StartStopClick
    \/ AbsoluteReading
    \/ LinearReading
    \/ MagnetometerReading
    \/ GyroscopeReading
    \/ Frame
    \/ Loop

SpecFusion == InitFusion /\ [][NextFusion]_vars

\* =============================================================== properties
StepTaken == obs.event = "loop" /\ obs.stepped
StepTakenNext == obs'.event = "loop" /\ obs'.stepped

\* C1: proper time never decreases from one handler to the next unless the
\* handler is a reset, and each step adds a dtau with 0 <= dtau <= dt.
C1_ProperTimeMonotone ==
    [][/\ obs'.event # "reset" => tauVal' >= tauVal
       /\ StepTakenNext => /\ 0 <= obs'.dtau
                           /\ obs'.dtau <= obs'.dt
                           /\ tauVal' = tauVal + obs'.dtau]_vars

\* A step with a Lorentz factor above 1: proper time advanced, by less than dt.
C1_Witness == StepTaken /\ 0 < obs.dtau /\ obs.dtau < obs.dt /\ tauVal > 0

\* C2: while running is false no handler but reset changes velocity or
\* proper time, and a loop callback that runs then neither steps nor requests
\* another frame.
C2_StopFlag ==
    [][/\ (~running /\ obs'.event # "reset") => (vWorld' = vWorld /\ tauVal' = tauVal)
       /\ (~running /\ firing > 0) => (~obs'.stepped /\ pending' = pending
                                       /\ lastFrameT' = lastFrameT)]_vars

\* A callback requested before the pause has run after it, with proper time
\* accumulated before the pause still there.
C2_Witness ==
    obs.event = "loop" /\ ~obs.stepped /\ ~running /\ pending = 0 /\ tauVal > 0

\* C3: from a Start click to the first step after it the previous-timestamp
\* reference is null, and that step takes the frame's own timestamp as
\* previous one: its dt is 0 whatever time passed before the click.
C3_ResumeExcludesPause ==
    /\ fresh => IsNull(lastFrameT)
    /\ (StepTaken /\ obs.first) => (IsNull(obs.prev) /\ obs.dt = 0)

\* The first step after a second Start click, at a frame later than time 0.
C3_Witness == StepTaken /\ obs.first /\ obs.t > 0 /\ subs.ori >= 2

\* C4: at most one loop callback is requested or waiting to run, and the
\* step body runs at most once in a frame.
C4_OneStepPerTick == pending + firing <= 1 /\ frameSteps <= 1

\* C5: a reset leaves the velocity at (0,0,0) and proper time at 0; it does
\* not touch the orientation quaternions, and the filter's quaternion has
\* norm 1 afterwards (within the rounding of the fixed point).
UnitNorm(q) == Abs(Hypot4(q[1], q[2], q[3], q[4]) - Scale) <= 2
C5_ResetZeroes ==
    [][obs'.event = "reset" =>
          /\ vWorld' = Zero3
          /\ tauVal' = 0
          /\ qwd' = qwd /\ qdw_abs' = qdw_abs
          /\ UnitNorm(qwd')]_vars

\* A reset while running, after the filter has turned the quaternion and
\* proper time has advanced (the stale callback of the frame is still due).
C5_Witness == obs.event = "reset" /\ running /\ qwd # QIdentity /\ pending > 0

\* C6 as claimed: every step uses a dt above 0.
C6_DtPositive == StepTaken => obs.dt > 0

\* C6 as amended: every step uses a dt that is never negative: 0 in the first
\* step after a Start click and when the frame's timestamp is not later than
\* the previous one, the timestamp difference otherwise.
C6_DtClampedAtZero ==
    StepTaken =>
        /\ obs.dt >= 0
        /\ IsNull(obs.prev) => obs.dt = 0
        /\ ~IsNull(obs.prev) =>
              obs.dt = (IF obs.t <= obs.prev[1] THEN 0 ELSE obs.t - obs.prev[1])

\* A step whose frame timestamp is earlier than the previous one.
C6_Witness == StepTaken /\ ~IsNull(obs.prev) /\ obs.t < OrElse(obs.prev, 0) /\ obs.dt = 0

\* C7: no sensor event handler changes the filter quaternion, the velocity
\* or proper time.
C7_SingleWriter ==
    [][obs'.event \in SensorEvents =>
          (qwd' = qwd /\ vWorld' = vWorld /\ tauVal' = tauVal)]_vars

\* C8: a step with angular velocity above omegaGate (0.35 rad/s) and an
\* acceleration magnitude below the secondary threshold (0.2 m/s^2) does not
\* increase the velocity magnitude.
OmegaGate == (35 * Scale) \div 100
SecondaryGate == Scale \div 5
C8_RotationGating ==
    [][(StepTakenNext /\ obs'.omega > OmegaGate /\ obs'.amag < SecondaryGate) =>
          norm3(vWorld'.x, vWorld'.y, vWorld'.z) <= norm3(vWorld.x, vWorld.y, vWorld.z)]_vars

\* C9 as claimed: a step decays the velocity if and only if the acceleration
\* magnitude is at or below 1.5 x GATE.
C9_DecayAtOrBelow ==
    StepTaken => (obs.decayed <=> obs.amag <= (3 * GATE) \div 2)

\* C9 as amended: a step decays the velocity if and only if the acceleration
\* magnitude is strictly below 1.5 x GATE, and the decay multiplies the
\* velocity the step has already integrated: v' = (v + a*dt) * decay.
C9_DecayStrictlyBelow ==
    [][StepTakenNext =>
          /\ obs'.decayed <=> obs'.amag < (3 * GATE) \div 2
          /\ ~obs'.decayed => obs'.decay = Scale
          /\ obs'.decay <= Scale
          /\ vWorld' = (IF obs'.amag < (3 * GATE) \div 2
                        THEN scale3(addScaled(vWorld, obs'.aWorld, obs'.dt), obs'.decay)
                        ELSE addScaled(vWorld, obs'.aWorld, obs'.dt))]_vars

\* A step at the threshold itself: integrated, not decayed.
C9_Witness ==
    StepTaken /\ obs.amag = (3 * GATE) \div 2 /\ ~obs.decayed /\ obs.dt > 0
    /\ vWorld # Zero3

\* C10: a Madgwick.update called with a zero acceleration vector still
\* advances the quaternion by the gyroscope rate over dt and renormalizes it
\* (the correction term alone is left out).
C10_GyroStillIntegrated ==
    [][(obs'.updates = 1 /\ obs'.upd.a = Zero3) =>
          qwd' = integrateRate(qwd, GyroRate(qwd, obs'.upd.g), <<0, 0, 0, 0>>,
                               obs'.upd.dt)]_vars

\* C11: on a host without any inertial sensor interface a Start click leaves
\* the status label at 'no sensors', and every step there integrates zero
\* acceleration, keeps the velocity at zero and advances proper time by dt.
C11_NoSensorsSurfaced ==
    (variant = "madgwick" /\ host = HostNone) =>
        /\ obs.event = "start" => oriStatus = "no sensors"
        /\ StepTaken => /\ obs.aWorld = Zero3
                        /\ vWorld = Zero3
                        /\ obs.dtau = obs.dt

\* A step of the madgwick variant.
FusionStep == variant = "madgwick" /\ StepTaken

\* What a step makes of the latest gravity-free reading delivered, and of the
\* latest gravity-inclusive one (gravity in the device frame taken off).
FromLatestLin == gate3(lastLin[1])
FromLatestInc ==
    gate3(sub3(lastInc[1],
               qRotateVec(IF usingAbsoluteOrientation THEN qConj(qdw_abs) ELSE qwd,
                          Vec(0, 0, -G))))

\* C12 as claimed: the acceleration a step uses comes from the acceleration
\* event delivered last, gravity-free or gravity-inclusive, and is zero when
\* none was delivered.
C12_NewestReadingUsed ==
    FusionStep =>
        obs.aDev = (CASE newest = "lin" -> FromLatestLin
                      [] newest = "inc" -> FromLatestInc
                      [] OTHER -> Zero3)

\* C12 as amended: the acceleration a step uses comes from the latest
\* gravity-free reading once one was delivered, however old; from the latest
\* gravity-inclusive reading when no gravity-free one ever was; and is zero
\* when none was delivered.
C12_LatestOfPreferredInput ==
    FusionStep =>
        obs.aDev = (IF ~IsNull(lastLin) THEN FromLatestLin
                    ELSE IF ~IsNull(lastInc) THEN FromLatestInc
                    ELSE Zero3)

\* A step that used a gravity-free reading older than the gravity-inclusive
\* reading delivered after it.
C12_Witness ==
    /\ FusionStep /\ newest = "inc" /\ ~IsNull(lastLin)
    /\ obs.aDev = FromLatestLin /\ FromLatestLin # FromLatestInc

\* No axis component of v is non-zero and below GATE.
Gated(v) ==
    /\ v.x = 0 \/ Abs(v.x) >= GATE
    /\ v.y = 0 \/ Abs(v.y) >= GATE
    /\ v.z = 0 \/ Abs(v.z) >= GATE

\* C13 as claimed: the world-frame acceleration a step integrates has no axis
\* component that is non-zero and below GATE.
C13_WorldFrameGated == StepTaken => Gated(obs.aWorld)

\* C13 as amended: the gate acts on the device-frame acceleration, before the
\* rotation: the device-frame acceleration a step uses has no axis component
\* that is non-zero and below GATE, and the world-frame acceleration it
\* integrates is that vector rotated by the orientation in use (itself in the
\* simple variant).
C13_DeviceFrameGated ==
    StepTaken =>
        /\ Gated(obs.aDev)
        /\ obs.aWorld =
              (CASE variant = "simple" -> obs.aDev
                 [] variant = "euler" -> mult3x3Vec3(R, obs.aDev)
                 [] OTHER -> qRotateVec(IF usingAbsoluteOrientation THEN qdw_abs
                                        ELSE qConj(qwd), obs.aDev))

\* A step whose gated device-frame acceleration, once rotated, has a
\* world-frame component that is non-zero and below GATE.
C13_Witness == StepTaken /\ obs.aDev # Zero3 /\ Gated(obs.aDev) /\ ~Gated(obs.aWorld)

\* C14: gammaFromV returns exactly 1 when beta2 <= 0, the finite guard 1e12
\* when beta2 >= 1 and 1/sqrt(1 - beta2) otherwise, so for every finite raw
\* speed and every light speed c > 0 the Lorentz factor a step uses is finite
\* and at least 1, and what the step adds to the proper time is a finite number
\* (never Infinity, never NaN).
FiniteAtLeastOne(g) == g.k = "num" /\ FGe(g, FOne)
C14_GammaFiniteAtLeastOne ==
    /\ calc.stage \in {"gamma", "done"} => FiniteAtLeastOne(calc.gamma)
    /\ calc.stage = "done" => calc.dtau.k = "num"

\* C15: getC returns the entered value iff it is finite and > 0, else 1.0;
\* getTau returns it iff finite and > 0, else 3.0; getK returns it iff finite
\* and >= 0, else 0.5; so every step runs with c > 0, tau > 0 and k >= 0
\* whatever the settings fields contain.
Entered(text) == parseFloat(text).val
C15_SettingsFallBack ==
    /\ \A text \in FieldTexts :
          /\ getC(text) = IF parseFloat(text).finite /\ Entered(text) > 0
                          THEN Entered(text) ELSE Scale
          /\ getTau(text) = IF parseFloat(text).finite /\ Entered(text) > 0
                            THEN Entered(text) ELSE 3 * Scale
          /\ getK(text) = IF parseFloat(text).finite /\ Entered(text) >= 0
                          THEN Entered(text) ELSE Scale \div 2
    /\ {cval, tau, kboost} \subseteq FieldTexts
    /\ StepTaken => getC(cval) > 0 /\ getTau(tau) > 0 /\ getK(kboost) >= 0
C15_Witness ==
    /\ StepTaken /\ variant = "madgwick"
    /\ tau = "0" /\ getTau(tau) = 3 * Scale
    /\ kboost = "-2" /\ getK(kboost) = Scale \div 2

\* C16: after every Madgwick.update call, whatever gyroscope, accelerometer
\* and magnetometer values and dt it was given (a zero acceleration or a zero
\* magnetic field included), the filter quaternion has norm 1 (within the
\* rounding of the fixed point); it is never the zero quaternion.
FilterUpdated == variant = "madgwick" /\ obs.updates > 0
C16_UnitNormAfterUpdate == FilterUpdated => UnitNorm(qwd)
C16_Witness ==
    /\ FilterUpdated /\ UnitNorm(qwd)
    /\ obs.upd.m = Zero3 /\ obs.upd.a # Zero3 /\ qwd # QIdentity
C16_WitnessZeroAcceleration ==
    FilterUpdated /\ obs.upd.a = Zero3 /\ UnitNorm(qwd)

\* C17: the effective speed every step publishes, c * tanh(v_raw / c), is
\* strictly below c for every raw speed and every c > 0 the steps can reach,
\* so no step takes the guard branch beta2 >= 1 of gammaFromV.
C17_EffectiveSpeedBelowC ==
    StepTaken => obs.vEff < getC(cval) /\ obs.gamma # GammaGuard

\* C18: under zero acceleration every step multiplies the velocity by
\* exp(-dt / tau_eff), tau_eff = tau / (1 + k * (gamma - 1)) with gamma the
\* Lorentz factor of the current velocity; tau_eff <= tau, tau_eff = tau when
\* k = 0, the direction of the velocity is unchanged and its magnitude does
\* not grow (the factor is below 1 whenever dt > 0).
ZeroAccelerationStep == StepTakenNext /\ obs'.aWorld = Zero3
CurrentGamma ==
    gammaFromV(limitSpeed(norm3(vWorld.x, vWorld.y, vWorld.z), getC(cval)), getC(cval))
AdaptiveTau ==
    IF CurrentGamma.e = 0
    THEN Div(getTau(tau), Scale + Mul(getK(kboost), CurrentGamma.m - Scale))
    ELSE IF getK(kboost) = 0 THEN getTau(tau) ELSE 0
DecaysWith(tauEff) ==
    /\ tauEff <= getTau(tau)
    /\ getK(kboost) = 0 => tauEff = getTau(tau)
    /\ obs'.decay = (IF tauEff = 0 THEN (IF obs'.dt = 0 THEN Scale ELSE 0)
                     ELSE ExpNeg(Div(obs'.dt, tauEff)))
    /\ vWorld' = scale3(vWorld, obs'.decay)
    /\ 0 <= obs'.decay /\ obs'.decay <= Scale
    /\ obs'.dt > 0 => obs'.decay < Scale
    /\ norm3(vWorld'.x, vWorld'.y, vWorld'.z) <= norm3(vWorld.x, vWorld.y, vWorld.z)
C18_AdaptiveDecay == [][ZeroAccelerationStep => DecaysWith(AdaptiveTau)]_vars

\* C18 as the code has it: the madgwick variant decays with tau_eff, the
\* simple and the euler variant with tau itself, whatever the Lorentz factor.
C18_DecayPerVariant ==
    [][ZeroAccelerationStep =>
          DecaysWith(IF variant = "madgwick" THEN AdaptiveTau ELSE getTau(tau))]_vars
C18_Witness ==
    /\ StepTaken /\ obs.aWorld = Zero3 /\ obs.dt > 0
    /\ variant = "madgwick" /\ kboost = "0.5" /\ obs.gamma.m > Scale
    /\ obs.decay < ExpNeg(Div(obs.dt, getTau(tau)))
    /\ vWorld # Zero3

\* C19: from rest, in identity orientation, with a constant acceleration of
\* (1,0,0) m/s^2, c = 1.0 and 60 steps of dt = 1/60 s, the raw speed after
\* the last step is 1.0 m/s, v_eff is tanh(1.0) = 0.7616, gamma is 1.5596 and
\* the accumulated proper time is 0.6412 s (all to within 0.005).
Near(x, y) == Abs(x - y) <= Scale \div 200
AfterOneSecond ==
    /\ StepTaken /\ obs.t = Scale /\ frameSteps = 1
    /\ obs.aWorld = Push /\ cval = "1"
C19_EndToEnd ==
    AfterOneSecond =>
        /\ obs.vmag = Scale
        /\ Near(obs.vEff, RoundDiv(761594, Scale))
        /\ obs.gamma.e = 0 /\ Near(obs.gamma.m, RoundDiv(1559600, Scale))
        /\ Near(tauVal, RoundDiv(641200, Scale))

\* C19 with the figures the steps produce: gamma = cosh(1.0) = 1.5431 in the
\* last step, and a proper time of 0.8628 s, the sum of dt / gamma over the
\* steps, each with the gamma of its own speed.
C19_EndToEndSummed ==
    AfterOneSecond =>
        /\ obs.vmag = Scale
        /\ Near(obs.vEff, RoundDiv(761594, Scale))
        /\ obs.gamma.e = 0 /\ Near(obs.gamma.m, RoundDiv(1543081, Scale))
        /\ Near(tauVal, RoundDiv(862825, Scale))
C19_Witness == AfterOneSecond /\ vWorld = Push /\ tauVal > 0 /\ tauVal < Scale

\* C20: when Start is pressed on a host without the Generic Sensor API (none
\* of AbsoluteOrientationSensor, LinearAccelerationSensor, Accelerometer,
\* Gyroscope, Magnetometer exists), the legacy devicemotion and
\* deviceorientation listeners the host supports are registered, so that
\* legacy motion events can reach the acceleration cache.
GenericSensorsAbsent ==
    ~host.abs /\ ~host.las /\ ~host.acc /\ ~host.gyr /\ ~host.magn
C20_LegacyFallback ==
    (variant = "madgwick" /\ GenericSensorsAbsent /\ obs.event = "start") =>
        /\ host.dm => subs.dm > 0
        /\ host.dor => subs.dor > 0

\* C21: once the absolute-orientation provider has delivered a quaternion
\* (here: one that is not the identity the program starts with), every
\* following step rotates the acceleration with the provider's latest
\* quaternion and not with the filter's, however the readings of the other
\* sensors interleave with the provider's.
ProviderDelivered == variant = "madgwick" /\ qdw_abs # QIdentity
C21_AbsolutePassthrough ==
    (StepTaken /\ ProviderDelivered) =>
        /\ usingAbsoluteOrientation
        /\ obs.aWorld = qRotateVec(qdw_abs, obs.aDev)

\* C22: the magnetic field is an optional input of the estimator: in the
\* Generic Sensor path a gyroscope reading that arrives after an earlier
\* gyroscope reading, while an acceleration reading is cached, updates the
\* filter quaternion, whether or not a magnetometer reading was ever received.
AccelerationCached == ~(IsNull(linAcc) /\ IsNull(accInc))
C22_MagnetometerOptional ==
    [][(obs'.event = "gyroscope" /\ ~IsNull(lastGyroTS) /\ AccelerationCached)
          => obs'.updates > 0]_vars

\* C23: a reset changes only the velocity, proper time and, in the simple and
\* the Euler variant, the cached device acceleration and the memory of the
\* high-pass filter (which it zeroes); in every variant the running flag, the
\* previous-frame timestamp, the scheduled callbacks and the orientation state
\* (filter quaternion, absolute quaternion, rotation matrix R) are what they
\* were, so a reset while running neither stops nor restarts the loop.
hpCleared ==
    [x |-> 0, y |-> 0, z |-> 0, lastX |-> Null, lastY |-> Null, lastZ |-> Null]
C23_ResetFrame ==
    [][obs'.event = "reset" =>
          /\ running' = running /\ lastFrameT' = lastFrameT
          /\ pending' = pending /\ firing' = firing
          /\ qwd' = qwd /\ qdw_abs' = qdw_abs /\ R' = R
          /\ usingAbsoluteOrientation' = usingAbsoluteOrientation
          /\ UNCHANGED <<accInc, linAcc, gyro, mag, lastGyroTS, dmRotRate, dmTS>>
          /\ UNCHANGED <<cval, tau, kboost, subs, hidden>>
          /\ vWorld' = Zero3 /\ tauVal' = 0
          /\ IF variant = "madgwick"
             THEN aDev' = aDev /\ hp' = hp
             ELSE aDev' = Zero3 /\ hp' = hpCleared]_vars

\* A reset while the loop runs: a step has stored its frame timestamp, the
\* next callback is scheduled, and the orientation is no longer the initial
\* one (a provider's quaternion in use, or a matrix built from an event).
C23_Witness ==
    /\ obs.event = "reset" /\ running /\ pending > 0 /\ ~IsNull(lastFrameT)
    /\ (usingAbsoluteOrientation \/ R # identity3)

\* C24: Start is idempotent for the sensor subscriptions: after any number of
\* Start and Pause clicks each kind of sensor has at most one active instance
\* and one reading handler, so one gyroscope sample runs the filter's update
\* at most once and one orientation event writes the orientation state once.
SensorKinds == {"abs", "las", "acc", "gyr", "magn", "dm", "dor", "motion", "ori"}
C24_StartIdempotent ==
    /\ \A kind \in SensorKinds : subs[kind] <= 1
    /\ obs.event = "gyroscope" => obs.updates <= 1

\* C25: the gravity reference handed to the filter's update is always a
\* gravity-inclusive accelerometer reading, never a gravity-free (linear)
\* acceleration reading, in the gyroscope handler as in the legacy fusion of
\* the loop.
C25_GravityInclusiveReference ==
    FilterUpdated => (~IsNull(accInc) /\ obs.upd.a = accInc[1])

\* C26: the loops of the Madgwick and of the simple variant are
\* step-equivalent: from the same velocity, proper time and previous frame
\* timestamp, with the same frame timestamp and the same world-frame
\* acceleration, identity orientation and k = 0, both hold the same velocity
\* and the same proper time after the step, and the raw speed each publishes
\* is the magnitude of the velocity it stores at the end of the step.
\* SimpleStep is the step of the simple variant's loop on the state and the
\* acceleration of the Madgwick step being taken.
MadgwickStepAtZeroK ==
    /\ StepTakenNext /\ variant = "madgwick" /\ kboost = "0"
    /\ obs'.aWorld = obs'.aDev
SimpleStep == loopPlain(frameT, obs'.aWorld)
StoredSpeedNext == norm3(vWorld'.x, vWorld'.y, vWorld'.z)
C26_StepEquivalent ==
    [][/\ MadgwickStepAtZeroK =>
             /\ vWorld' = SimpleStep.vWorld
             /\ tauVal' = SimpleStep.tauVal
             /\ obs'.vmag = StoredSpeedNext
       /\ (StepTakenNext /\ variant # "madgwick") => obs'.vmag = StoredSpeedNext]_vars

\* C26 as the code has it: the velocities agree after every step, and the
\* simple and the Euler variant publish the magnitude of the stored velocity.
\* The Madgwick variant computes raw speed, effective speed and the Lorentz
\* factor between the integration and the decay, the simple variant after
\* the decay: in a step without decay proper time and published speed agree
\* as well; in a decaying step the Madgwick variant publishes the magnitude
\* before the decay (at least the stored one) and its Lorentz factor is the
\* one of that larger speed, so its proper-time increment is at most the
\* simple variant's.
SpeedBeforeDecay ==
    With(addScaled(vWorld, obs'.aWorld, obs'.dt), LAMBDA v1 : norm3(v1.x, v1.y, v1.z))
C26_VelocityEquivalent ==
    [][/\ MadgwickStepAtZeroK =>
             /\ vWorld' = SimpleStep.vWorld
             /\ obs'.decayed = SimpleStep.obs.decayed
             /\ obs'.vmag = SpeedBeforeDecay
             /\ obs'.vmag >= StoredSpeedNext
             /\ tauVal' <= SimpleStep.tauVal
             /\ ~obs'.decayed =>
                   (tauVal' = SimpleStep.tauVal /\ obs'.vmag = StoredSpeedNext)
       /\ (StepTakenNext /\ variant # "madgwick") => obs'.vmag = StoredSpeedNext]_vars

\* A decaying step of the Madgwick variant with k = 0 and a moving device:
\* the published speed is above the magnitude of the stored velocity.
C26_Witness ==
    /\ StepTaken /\ variant = "madgwick" /\ kboost = "0" /\ obs.aWorld = obs.aDev
    /\ obs.decayed /\ vWorld # Zero3
    /\ obs.vmag > norm3(vWorld.x, vWorld.y, vWorld.z)
====
